---- MODULE Spec2Model ----
(***************************************************************************)
(* A model of bursavich.dev/httpprom: the response-writer delegator        *)
(* (internal/forked/prometheus/promhttp/delegator.go), the lookup tables   *)
(* (lookup.go) and the instrumenting middleware (mux.go).                  *)
(*                                                                         *)
(* Go strings whose characters matter (methods, status codes, handler      *)
(* names: the label values) are sequences of one-character strings, so     *)
(* that strings.ToLower and strconv.Itoa are computed character by         *)
(* character.  Label names, which the code only compares with "", are      *)
(* TLA+ strings.                                                           *)
(***************************************************************************)
EXTENDS Integers, Sequences, FiniteSets, TLC

(***************************************************************************)
(* Bounds of the model.                                                    *)
(***************************************************************************)
\* requests served concurrently under Spec
MaxReqs == 2
\* requests served concurrently under SpecLoad
MaxLoad == 4
\* calls a handler makes on its delegate
MaxCalls == 2
\* largest byte count of one Write or ReadFrom
MaxBytes == 2
\* requests served concurrently under SpecLive
MaxLive == 3
\* longest list of label names given to coalesce
MaxLabels == 5
\* longest method string given to lookupMethod that is not a net/http constant
MaxToken == 3

(***************************************************************************)
(* lookup.go                                                               *)
(***************************************************************************)
UpperLetters ==
    << "A", "B", "C", "D", "E", "F", "G", "H", "I", "J", "K", "L", "M",
       "N", "O", "P", "Q", "R", "S", "T", "U", "V", "W", "X", "Y", "Z" >>

LowerLetters ==
    << "a", "b", "c", "d", "e", "f", "g", "h", "i", "j", "k", "l", "m",
       "n", "o", "p", "q", "r", "s", "t", "u", "v", "w", "x", "y", "z" >>

DecimalDigits == << "0", "1", "2", "3", "4", "5", "6", "7", "8", "9" >>

\* strings.ToLower on one character
ToLowerChar(c) ==
    IF \E i \in 1..Len(UpperLetters) : UpperLetters[i] = c
    THEN LowerLetters[CHOOSE i \in 1..Len(UpperLetters) : UpperLetters[i] = c]
    ELSE c

\* strings.ToLower
RECURSIVE ToLower(_)
ToLower(s) ==
    IF s = << >> THEN << >>
    ELSE << ToLowerChar(Head(s)) >> \o ToLower(Tail(s))

RECURSIVE Utoa(_)
Utoa(n) ==
    IF n < 10 THEN << DecimalDigits[n + 1] >>
    ELSE Utoa(n \div 10) \o << DecimalDigits[(n % 10) + 1] >>

\* strconv.Itoa
Itoa(n) == IF n < 0 THEN << "-" >> \o Utoa(-n) ELSE Utoa(n)

\* the net/http method constants listed in methods
methods ==
    << << "G", "E", "T" >>,
       << "H", "E", "A", "D" >>,
       << "P", "O", "S", "T" >>,
       << "P", "U", "T" >>,
       << "P", "A", "T", "C", "H" >>,
       << "D", "E", "L", "E", "T", "E" >>,
       << "C", "O", "N", "N", "E", "C", "T" >>,
       << "O", "P", "T", "I", "O", "N", "S" >>,
       << "T", "R", "A", "C", "E" >> >>

\* the net/http status constants listed in codes
codes ==
    << 100, 101, 102, 103,
       200, 201, 202, 203, 204, 205, 206, 207, 208, 226,
       300, 301, 302, 303, 304, 305, 307, 308,
       400, 401, 402, 403, 404, 405, 406, 407, 408, 409, 410, 411, 412,
       413, 414, 415, 416, 417, 418, 421, 422, 423, 424, 425, 426, 428,
       429, 431, 451,
       500, 501, 502, 503, 504, 505, 506, 507, 508, 510, 511 >>

\* m[k] = v of a Go map
MapSet(m, k, v) == (k :> v) @@ m

EmptyMap == [x \in {} |-> 0]

\* init's first loop, after i iterations:
\* methodTable[method] = lower; methodTable[lower] = lower
initMethodTable[i \in 0..Len(methods)] ==
    IF i = 0 THEN EmptyMap
    ELSE LET method == methods[i]
             lower == ToLower(method)
         IN  MapSet(MapSet(initMethodTable[i - 1], method, lower), lower, lower)

\* init's second loop, after i iterations:
\* codeTable[code] = strconv.Itoa(code)
initCodeTable[i \in 0..Len(codes)] ==
    IF i = 0 THEN EmptyMap
    ELSE MapSet(initCodeTable[i - 1], codes[i], Itoa(codes[i]))

methodTable == initMethodTable[Len(methods)]

codeTable == initCodeTable[Len(codes)]

\* lookupMethod returning the map's zero value for a method not in the table
lookupMethod_NoFallback(method) ==
    IF method \in DOMAIN methodTable THEN methodTable[method] ELSE << >>

lookupMethod(method) ==
    IF method \in DOMAIN methodTable THEN methodTable[method] ELSE ToLower(method)

\* lookupCode returning the map's zero value for a code not in the table
lookupCode_NoFallback(code) ==
    IF code \in DOMAIN codeTable THEN codeTable[code] ELSE << >>

lookupCode(code) ==
    IF code \in DOMAIN codeTable THEN codeTable[code] ELSE Itoa(code)

(***************************************************************************)
(* mux.go: label names                                                     *)
(***************************************************************************)
\* labels with element i removed: copy(labels[i:], labels[i+1:]) then
\* labels[:len(labels)-1]
ShiftOut(labels, i) ==
    SubSeq(labels, 1, i - 1) \o SubSeq(labels, i + 1, Len(labels))

RECURSIVE coalesceLoop_StepAfterRemoval(_, _)
coalesceLoop_StepAfterRemoval(labels, i) ==
    IF i > Len(labels) THEN labels
    ELSE IF labels[i] = "" THEN coalesceLoop_StepAfterRemoval(ShiftOut(labels, i), i + 1)
    ELSE coalesceLoop_StepAfterRemoval(labels, i + 1)

RECURSIVE coalesceLoop(_, _)
coalesceLoop(labels, i) ==
    IF i > Len(labels) THEN labels
    ELSE IF labels[i] = "" THEN coalesceLoop(ShiftOut(labels, i), i)
    ELSE coalesceLoop(labels, i + 1)

\* coalesce whose loop goes on to i + 1 after it removed an element
coalesce_StepAfterRemoval(labels) == coalesceLoop_StepAfterRemoval(labels, 1)

coalesce(labels) == coalesceLoop(labels, 1)

maybe(label, yes) == IF yes THEN label ELSE ""

(***************************************************************************)
(* internal/forked/prometheus/promhttp/delegator.go                        *)
(***************************************************************************)
\* the optional interfaces a http.ResponseWriter may implement
CloseNotifier == "CloseNotifier"
Flusher == "Flusher"
Hijacker == "Hijacker"
ReaderFrom == "ReaderFrom"
Pusher == "Pusher"

Capabilities == {CloseNotifier, Flusher, Hijacker, ReaderFrom, Pusher}

\* const ( closeNotifier = 1 << iota; flusher; hijacker; readerFrom; pusher )
closeNotifier == 1
flusher == 2
hijacker == 4
readerFrom == 8
pusher == 16

\* http.StatusOK
StatusOK == 200

\* pickDelegator as init fills it: entry i is the set of optional interfaces
\* in the method set of the value the i-th constructor returns (the wrapper
\* type itself for a single capability, the embedded interface fields of the
\* anonymous struct otherwise).
pickDelegator ==
       (0) :> {}
    @@ (closeNotifier) :> {CloseNotifier}
    @@ (flusher) :> {Flusher}
    @@ (flusher + closeNotifier) :> {Flusher, CloseNotifier}
    @@ (hijacker) :> {Hijacker}
    @@ (hijacker + closeNotifier) :> {Hijacker, CloseNotifier}
    @@ (hijacker + flusher) :> {Hijacker, Flusher}
    @@ (hijacker + flusher + closeNotifier) :> {Hijacker, Flusher, CloseNotifier}
    @@ (readerFrom) :> {ReaderFrom}
    @@ (readerFrom + closeNotifier) :> {ReaderFrom, CloseNotifier}
    @@ (readerFrom + flusher) :> {ReaderFrom, Flusher}
    @@ (readerFrom + flusher + closeNotifier) :> {ReaderFrom, Flusher, CloseNotifier}
    @@ (readerFrom + hijacker) :> {ReaderFrom, Hijacker}
    @@ (readerFrom + hijacker + closeNotifier) :> {ReaderFrom, Hijacker, CloseNotifier}
    @@ (readerFrom + hijacker + flusher) :> {ReaderFrom, Hijacker, Flusher}
    @@ (readerFrom + hijacker + flusher + closeNotifier) :> {ReaderFrom, Hijacker, Flusher, CloseNotifier}
    @@ (pusher) :> {Pusher}
    @@ (pusher + closeNotifier) :> {Pusher, CloseNotifier}
    @@ (pusher + flusher) :> {Pusher, Flusher}
    @@ (pusher + flusher + closeNotifier) :> {Pusher, Flusher, CloseNotifier}
    @@ (pusher + hijacker) :> {Pusher, Hijacker}
    @@ (pusher + hijacker + closeNotifier) :> {Pusher, Hijacker, CloseNotifier}
    @@ (pusher + hijacker + flusher) :> {Pusher, Hijacker, Flusher}
    @@ (pusher + hijacker + flusher + closeNotifier) :> {Pusher, Hijacker, Flusher, CloseNotifier}
    @@ (pusher + readerFrom) :> {Pusher, ReaderFrom}
    @@ (pusher + readerFrom + closeNotifier) :> {Pusher, ReaderFrom, CloseNotifier}
    @@ (pusher + readerFrom + flusher) :> {Pusher, ReaderFrom, Flusher}
    @@ (pusher + readerFrom + flusher + closeNotifier) :> {Pusher, ReaderFrom, Flusher, CloseNotifier}
    @@ (pusher + readerFrom + hijacker) :> {Pusher, ReaderFrom, Hijacker}
    @@ (pusher + readerFrom + hijacker + closeNotifier) :> {Pusher, ReaderFrom, Hijacker, CloseNotifier}
    @@ (pusher + readerFrom + hijacker + flusher) :> {Pusher, ReaderFrom, Hijacker, Flusher}
    @@ (pusher + readerFrom + hijacker + flusher + closeNotifier) :> {Pusher, ReaderFrom, Hijacker, Flusher, CloseNotifier}

\* http.ResponseWriter w wrapped: the *responseWriterDelegator d (status,
\* written; its ResponseWriter field is the request's underlying writer),
\* the index id computed for w and the optional interfaces of the wrapper
\* pickDelegator[id] makes.
\* NewDelegator with the Hijacker probe adding the flusher bit
NewDelegator_HijackerAsFlusher(w) ==
    LET id == (IF CloseNotifier \in w.caps THEN closeNotifier ELSE 0)
              + (IF Flusher \in w.caps THEN flusher ELSE 0)
              + (IF Hijacker \in w.caps THEN flusher ELSE 0)
              + (IF ReaderFrom \in w.caps THEN readerFrom ELSE 0)
              + (IF Pusher \in w.caps THEN pusher ELSE 0)
    IN  [status |-> StatusOK, written |-> 0, id |-> id, impl |-> pickDelegator[id]]

\* NewDelegator leaving status at Go's zero value
NewDelegator_ZeroStatus(w) ==
    LET id == (IF CloseNotifier \in w.caps THEN closeNotifier ELSE 0)
              + (IF Flusher \in w.caps THEN flusher ELSE 0)
              + (IF Hijacker \in w.caps THEN hijacker ELSE 0)
              + (IF ReaderFrom \in w.caps THEN readerFrom ELSE 0)
              + (IF Pusher \in w.caps THEN pusher ELSE 0)
    IN  [status |-> 0, written |-> 0, id |-> id, impl |-> pickDelegator[id]]

NewDelegator(w) ==
    LET id == (IF CloseNotifier \in w.caps THEN closeNotifier ELSE 0)
              + (IF Flusher \in w.caps THEN flusher ELSE 0)
              + (IF Hijacker \in w.caps THEN hijacker ELSE 0)
              + (IF ReaderFrom \in w.caps THEN readerFrom ELSE 0)
              + (IF Pusher \in w.caps THEN pusher ELSE 0)
    IN  [status |-> StatusOK, written |-> 0, id |-> id, impl |-> pickDelegator[id]]

Status(d) == d.status

Written(d) == d.written

\* The delegator methods take and return the pair dw = [d, w] of the
\* delegator and its underlying writer.  A recording writer (a test's stub)
\* keeps the codes passed to its WriteHeader, the totals of the byte counts
\* its Write and its ReadFrom reported, the number of calls it received and
\* a log of the calls on its optional interfaces (the method, its arguments
\* and what the writer returned) and one, base, of the calls of WriteHeader
\* and Write; the server's writer sends what it is given to the client and
\* keeps nothing.
UnderlyingWriteHeader(w, code) ==
    IF w.recording
    THEN [w EXCEPT !.headers = Append(@, code), !.calls = @ + 1,
                   !.base = Append(@, [fn |-> "WriteHeader", arg |-> << code >>,
                                       ret |-> << >>])]
    ELSE w

UnderlyingWrite(w, b, n, err) ==
    IF w.recording
    THEN [w EXCEPT !.bytes = @ + n, !.calls = @ + 1,
                   !.base = Append(@, [fn |-> "Write", arg |-> << b >>,
                                       ret |-> << n, err >>])]
    ELSE w

Logged(w, fn, arg, ret) ==
    [w EXCEPT !.log = Append(@, [fn |-> fn, arg |-> arg, ret |-> ret]),
              !.calls = @ + 1]

UnderlyingReadFrom(w, re, n) ==
    IF w.recording
    THEN [Logged(w, ReaderFrom, << re >>, << n >>) EXCEPT !.copied = @ + n]
    ELSE w

UnderlyingCloseNotify(w, ch) ==
    IF w.recording THEN Logged(w, CloseNotifier, << >>, << ch >>) ELSE w

UnderlyingFlush(w) ==
    IF w.recording THEN Logged(w, Flusher, << >>, << >>) ELSE w

UnderlyingHijack(w, conn, rw, err) ==
    IF w.recording THEN Logged(w, Hijacker, << >>, << conn, rw, err >>) ELSE w

UnderlyingPush(w, target, opts, err) ==
    IF w.recording THEN Logged(w, Pusher, << target, opts >>, << err >>) ELSE w

\* The methods also return ret, the results the caller gets; the last
\* parameters are the results of the underlying writer's method.
\* WriteHeader recording the code without passing it on
WriteHeader_NotForwarded(dw, code) ==
    [d |-> [dw.d EXCEPT !.status = code], w |-> dw.w, ret |-> << >>]

\* r.status = code; r.ResponseWriter.WriteHeader(code)
WriteHeader(dw, code) ==
    [d |-> [dw.d EXCEPT !.status = code],
     w |-> UnderlyingWriteHeader(dw.w, code),
     ret |-> << >>]

\* n, err := r.ResponseWriter.Write(b); r.written += int64(n); return n, err
\* (n and err are what the underlying writer returns)
Write(dw, b, n, err) ==
    [d |-> [dw.d EXCEPT !.written = @ + n],
     w |-> UnderlyingWrite(dw.w, b, n, err),
     ret |-> << n, err >>]

\* ReadFrom forwarding without counting
ReadFrom_NotCounted(dw, re, n) ==
    [d |-> dw.d, w |-> UnderlyingReadFrom(dw.w, re, n), ret |-> << n >>]

\* n, err := d.ResponseWriter.(io.ReaderFrom).ReadFrom(re); d.written += n;
\* return n, err
ReadFrom(dw, re, n) ==
    [d |-> [dw.d EXCEPT !.written = @ + n],
     w |-> UnderlyingReadFrom(dw.w, re, n),
     ret |-> << n >>]

\* return d.ResponseWriter.(http.CloseNotifier).CloseNotify()
CloseNotify(dw, ch) ==
    [d |-> dw.d, w |-> UnderlyingCloseNotify(dw.w, ch), ret |-> << ch >>]

\* Flush returning without a call of the underlying writer
Flush_NotForwarded(dw) ==
    [d |-> dw.d, w |-> dw.w, ret |-> << >>]

\* d.ResponseWriter.(http.Flusher).Flush()
Flush(dw) ==
    [d |-> dw.d, w |-> UnderlyingFlush(dw.w), ret |-> << >>]

\* return d.ResponseWriter.(http.Hijacker).Hijack()
Hijack(dw, conn, rw, err) ==
    [d |-> dw.d, w |-> UnderlyingHijack(dw.w, conn, rw, err),
     ret |-> << conn, rw, err >>]

\* return d.ResponseWriter.(http.Pusher).Push(target, opts)
Push(dw, target, opts, err) ==
    [d |-> dw.d, w |-> UnderlyingPush(dw.w, target, opts, err), ret |-> << err >>]

\* a ResponseWriter on which nothing was called yet
NewWriter(caps, recording) ==
    [caps |-> caps, recording |-> recording, headers |-> << >>, bytes |-> 0,
     copied |-> 0, calls |-> 0, log |-> << >>, base |-> << >>]

(***************************************************************************)
(* mux.go: the metric vectors.  A prometheus.GaugeVec is its variable      *)
(* label names, its constant labels and the value of every child created   *)
(* so far, keyed by the child's label values.                              *)
(***************************************************************************)
NewGaugeVec(constLabels, labelNames) ==
    [names |-> labelNames, constLabels |-> constLabels, vals |-> EmptyMap]

\* the value of the child with label values lvs (0 when it was never created)
ValueOf(vec, lvs) == IF lvs \in DOMAIN vec.vals THEN vec.vals[lvs] ELSE 0

\* vec.WithLabelValues(lvs...).Inc() / .Dec(): WithLabelValues panics when
\* the number of values is not the number of variable label names.
AddTo(vec, lvs, delta) ==
    IF Len(lvs) = Len(vec.names)
    THEN [ok |-> TRUE,
          vec |-> [vec EXCEPT !.vals = MapSet(@, lvs, ValueOf(vec, lvs) + delta)]]
    ELSE [ok |-> FALSE, vec |-> vec]

Inc(vec, lvs) == AddTo(vec, lvs, 1)

Dec(vec, lvs) == AddTo(vec, lvs, -1)

\* the options applied by init: WithMethod, WithCode, WithConstLabels
NoLabels == [x \in {} |-> << >>]

FooBar == [x \in {"foo"} |-> << "b", "a", "r" >>]

NoOptions == [method |-> FALSE, code |-> FALSE, constLabels |-> NoLabels]

WithMethod(o) == [o EXCEPT !.method = TRUE]

WithCode(o) == [o EXCEPT !.code = TRUE]

WithConstLabels(o, labels) == [o EXCEPT !.constLabels = labels]

\* mw.requests with the code label declared before the method label
initRequests_CodeFirst(o) ==
    NewGaugeVec(o.constLabels,
                coalesce(<< "handler", maybe("code", o.code), maybe("method", o.method) >>))

\* Middleware.init: mw.requests
initRequests(o) ==
    NewGaugeVec(o.constLabels,
                coalesce(<< "handler", maybe("method", o.method), maybe("code", o.code) >>))

\* mw.pending declared with the label names of mw.requests
initPending_WithCode(o) ==
    NewGaugeVec(o.constLabels,
                coalesce(<< "handler", maybe("method", o.method), maybe("code", o.code) >>))

\* Middleware.init: mw.pending
initPending(o) ==
    NewGaugeVec(o.constLabels, coalesce(<< "handler", maybe("method", o.method) >>))

\* The closures of pendingBeforeFunc, pendingDeferFunc and requestsAfterFunc,
\* applied: o is the middleware's configuration when the closure was made,
\* vec the vector it updates.
\* pendingBeforeFunc with Dec for Inc
pendingBeforeFunc_Dec(o, vec, handler, method) ==
    IF o.method THEN Dec(vec, << handler, method >>)
    ELSE Dec(vec, << handler >>)

\* pendingBeforeFunc passing the method before the handler
pendingBeforeFunc_MethodFirst(o, vec, handler, method) ==
    IF o.method THEN Inc(vec, << method, handler >>)
    ELSE Inc(vec, << handler >>)

pendingBeforeFunc(o, vec, handler, method) ==
    IF o.method THEN Inc(vec, << handler, method >>)
    ELSE Inc(vec, << handler >>)

\* pendingDeferFunc without the switch: the method is always passed
pendingDeferFunc_AlwaysMethod(o, vec, handler, method) ==
    Dec(vec, << handler, method >>)

pendingDeferFunc(o, vec, handler, method) ==
    IF o.method THEN Dec(vec, << handler, method >>)
    ELSE Dec(vec, << handler >>)

\* requestsAfterFunc passing the code where the method belongs
requestsAfterFunc_CodeForMethod(o, vec, handler, method, code) ==
    IF o.method /\ o.code THEN Inc(vec, << handler, method, code >>)
    ELSE IF o.method THEN Inc(vec, << handler, code >>)
    ELSE IF o.code THEN Inc(vec, << handler, code >>)
    ELSE Inc(vec, << handler >>)

\* requestsAfterFunc with Dec for Inc in the default case of the switch
requestsAfterFunc_DefaultDec(o, vec, handler, method, code) ==
    IF o.method /\ o.code THEN Inc(vec, << handler, method, code >>)
    ELSE IF o.method THEN Inc(vec, << handler, method >>)
    ELSE IF o.code THEN Inc(vec, << handler, code >>)
    ELSE Dec(vec, << handler >>)

\* requestsAfterFunc with Dec for Inc (mw.requests is a GaugeVec)
requestsAfterFunc_Dec(o, vec, handler, method, code) ==
    IF o.method /\ o.code THEN Dec(vec, << handler, method, code >>)
    ELSE IF o.method THEN Dec(vec, << handler, method >>)
    ELSE IF o.code THEN Dec(vec, << handler, code >>)
    ELSE Dec(vec, << handler >>)

requestsAfterFunc(o, vec, handler, method, code) ==
    IF o.method /\ o.code THEN Inc(vec, << handler, method, code >>)
    ELSE IF o.method THEN Inc(vec, << handler, method >>)
    ELSE IF o.code THEN Inc(vec, << handler, code >>)
    ELSE Inc(vec, << handler >>)

(***************************************************************************)
(* mux.go: registration.  An http.Handler argument is an interface value:  *)
(* its dynamic type and its value.  The nil interface has no dynamic type; *)
(* an http.HandlerFunc converted to http.Handler has the dynamic type      *)
(* HandlerFunc whatever its value, nil included.                           *)
(***************************************************************************)
\* the nil http.Handler
NilHandler == [type |-> "nil", value |-> "nil"]

\* a nil http.HandlerFunc
NilFunc == "nil"

\* a handler value v of some type implementing http.Handler
HandlerValue(v) == [type |-> "Handler", value |-> v]

\* the conversion of the http.HandlerFunc f to the parameter type
\* http.Handler in the calls mw.handler(name, handler) of lines 119 and 210
AsHandler(f) == [type |-> "HandlerFunc", value |-> f]

NoConfig == [name |-> << >>, handler |-> NilHandler]

\* The registration operators return whether the call panicked and, if it
\* did not, what it made: the *handlerConfig (cfg) or the entries of mux.mux
\* (m, a map from pattern to *handlerConfig).
\* Middleware.handler keeping the lower-case form of the name
Middleware_handler_LowerName(name, h) ==
    IF h = NilHandler THEN [panic |-> TRUE, cfg |-> NoConfig]
    ELSE [panic |-> FALSE, cfg |-> [name |-> ToLower(name), handler |-> h]]

\* Middleware.handler; handler == nil holds of the nil interface only
Middleware_handler(name, h) ==
    IF h = NilHandler THEN [panic |-> TRUE, cfg |-> NoConfig]
    ELSE [panic |-> FALSE, cfg |-> [name |-> name, handler |-> h]]

\* Middleware.Handler
Handler(name, h) == Middleware_handler(name, h)

\* Middleware.HandlerFunc
HandlerFunc(name, f) == Middleware_handler(name, AsHandler(f))

\* mux.mux.Handle(pattern, h), net/http's ServeMux.Handle: it panics on an
\* empty pattern and, as the comments of lines 202 and 208 say, if a handler
\* already exists for pattern; h, a *handlerConfig, is never nil
httpServeMuxHandle(m, pattern, h) ==
    IF pattern = << >> \/ pattern \in DOMAIN m THEN [panic |-> TRUE, m |-> m]
    ELSE [panic |-> FALSE, m |-> MapSet(m, pattern, h)]

\* ServeMux.Handle storing the handlerConfig under the pattern itself
Handle_Overwrite(m, pattern, h) ==
    LET made == Middleware_handler(pattern, h)
    IN  IF made.panic THEN [panic |-> TRUE, m |-> m]
        ELSE [panic |-> FALSE, m |-> MapSet(m, pattern, made.cfg)]

\* ServeMux.Handle: the argument mux.Middleware.handler(pattern, handler) is
\* evaluated before mux.mux.Handle is called
Handle(m, pattern, h) ==
    LET made == Middleware_handler(pattern, h)
    IN  IF made.panic THEN [panic |-> TRUE, m |-> m]
        ELSE httpServeMuxHandle(m, pattern, made.cfg)

\* ServeMux.HandleFunc
HandleFunc(m, pattern, f) ==
    LET made == Middleware_handler(pattern, AsHandler(f))
    IN  IF made.panic THEN [panic |-> TRUE, m |-> m]
        ELSE httpServeMuxHandle(m, pattern, made.cfg)

\* The handler option WithName(name) of mux_test.go, line 82, and the
\* registration mux.HandleFunc(pattern, handler, options...) of lines 97-103:
\* the handlerConfig is named by the option instead of by the pattern.
WithName(name) == [name |-> name]

HandleFuncWithOptions(m, pattern, f, options) ==
    LET made == Middleware_handler(pattern, AsHandler(f))
        named == IF options = << >> THEN made.cfg
                 ELSE [made.cfg EXCEPT !.name = options[Len(options)].name]
    IN  IF made.panic THEN [panic |-> TRUE, m |-> m]
        ELSE httpServeMuxHandle(m, pattern, named)

(***************************************************************************)
(* State.                                                                  *)
(***************************************************************************)
VARIABLES
    mw,        \* the middleware's configuration: method, code, constLabels
    requests,  \* mw.requests
    pending,   \* mw.pending
    pc,        \* pc[r]: where request r is in handlerConfig.ServeHTTP
    req,       \* req[r]: the request (r.Method) and the handlerConfig's name
               \* and handler
    method,    \* method[r]: ServeHTTP's local variable method
    d,         \* d[r]: ServeHTTP's local variable d, the delegator
    w,         \* w[r]: the http.ResponseWriter the server passed
    outcome,   \* outcome[r]: how the wrapped handler left line 65, if it has
    tally,     \* tally[r]: by how much r's own steps raised and lowered
               \* the children of the two vectors
    mux,       \* the ServeMux: the patterns of mux.mux with their handlers,
               \* and how the last registration call ended
    call,      \* call[r]: the calls the wrapped handler made on the optional
               \* interfaces of d[r], the last one with what it returned
    app        \* an application of coalesce, lookupMethod or lookupCode:
               \* the function, its argument and its result

vars == << mw, requests, pending, pc, req, method, d, w, outcome, tally, mux, call, app >>

Reqs == DOMAIN pc

NoRequest == [Method |-> << >>, handler |-> << >>, inner |-> NilHandler]

NoDelegator == [status |-> 0, written |-> 0, id |-> 0, impl |-> {}]

NoTally == [pendingInc |-> 0, pendingDec |-> 0, requestsInc |-> 0, requestsDec |-> 0]

\* no registration call made yet
NoRegistration ==
    [entry |-> "none", name |-> << >>, handler |-> NilHandler, existed |-> FALSE,
     panic |-> FALSE, ret |-> NoConfig]

\* a ServeMux as NewServeMux returns it: m is mux.mux; asked[pattern] is the
\* name and handler the first registration that succeeded for pattern was
\* called with; named are the names all registrations that succeeded were
\* called with; last is the last registration call, its arguments, whether
\* mux.mux had the pattern before it, whether it panicked and the
\* handlerConfig it returned (Handler and HandlerFunc)
NoMux == [m |-> EmptyMap, asked |-> EmptyMap, named |-> {}, last |-> NoRegistration]

\* no call made yet on the delegator: n, fn, arg and ret are the number of
\* calls on its optional interfaces and the last of them; base are the calls
\* of WriteHeader and Write with what they returned, kept by a test that
\* gave the handler a recording writer
NoCall == [n |-> 0, fn |-> "", arg |-> << >>, ret |-> << >>, base |-> << >>]

\* no function applied yet
NoApp == [fn |-> "", arg |-> << >>, done |-> FALSE, ret |-> << >>]

RECURSIVE SumOver(_, _)
SumOver(f, S) ==
    IF S = {} THEN 0
    ELSE LET x == CHOOSE y \in S : TRUE IN f[x] + SumOver(f, S \ {x})

\* by how much the children of vector new are above / below those of old
Raised(old, new) ==
    LET up == [k \in DOMAIN new.vals |->
                  IF ValueOf(new, k) > ValueOf(old, k)
                  THEN ValueOf(new, k) - ValueOf(old, k) ELSE 0]
    IN  SumOver(up, DOMAIN up)

Lowered(old, new) ==
    LET down == [k \in DOMAIN new.vals |->
                    IF ValueOf(new, k) < ValueOf(old, k)
                    THEN ValueOf(old, k) - ValueOf(new, k) ELSE 0]
    IN  SumOver(down, DOMAIN down)

\* h.handler.ServeHTTP(d, r) of line 65 runs the handler's code, unless
\* h.handler holds a nil http.HandlerFunc: calling that panics
Callable(h) == h.value # NilFunc

\* the handlerConfigs served under Spec, SpecLoad and SpecDelegator were
\* made of a handler function that is not nil
Serving(name) == HandlerFunc(name, "f").cfg

\* a panic that leaves ServeHTTP without running a deferred call
OnPanic_NothingDeferred == "panicked"

\* a panic after which ServeHTTP goes on with line 67
OnPanic_Recovered == "returned"

\* where a panic of the wrapped handler takes ServeHTTP: past lines 67-68,
\* to the deferred call of line 62
OnPanic == "unwinding"

(***************************************************************************)
(* handlerConfig.ServeHTTP, one action per step.                           *)
(***************************************************************************)
\* lines 60-62: the server calls ServeHTTP of the handlerConfig h with a
\* request whose Method is m.  Requests are numbered in the order in which
\* they arrive.
ServeHTTPBefore(r, h, m) ==
    /\ pc[r] = "idle"
    /\ IF r = 1 THEN TRUE ELSE pc[r - 1] # "idle"
    /\ LET canonical == lookupMethod(m)
           res == pendingBeforeFunc(mw, pending, h.name, canonical)
       IN  /\ method' = [method EXCEPT ![r] = canonical]
           /\ pending' = res.vec
           /\ pc' = [pc EXCEPT ![r] = IF res.ok THEN "deferred" ELSE "panicked"]
           /\ tally' = [tally EXCEPT ![r].pendingInc = @ + Raised(pending, res.vec),
                                      ![r].pendingDec = @ + Lowered(pending, res.vec)]
    /\ req' = [req EXCEPT ![r] = [Method |-> m, handler |-> h.name,
                                   inner |-> h.handler]]
    /\ UNCHANGED << mw, requests, d, w, outcome >>
    /\ UNCHANGED << mux, call, app >>

\* line 64
ServeHTTPNewDelegator(r) ==
    /\ pc[r] = "deferred"
    /\ d' = [d EXCEPT ![r] = NewDelegator(w[r])]
    /\ pc' = [pc EXCEPT ![r] = "handler"]
    /\ UNCHANGED << mw, requests, pending, req, method, w, tally, outcome >>
    /\ UNCHANGED << mux, call, app >>

\* line 65: the wrapped handler calls the base method fn of the delegator
\* with the arguments arg; res is what the method does and returns
HandlerCallsBase(r, fn, arg, res) ==
    /\ pc[r] = "handler"
    /\ Callable(req[r].inner)
    /\ w[r].calls < MaxCalls
    /\ Len(call[r].base) < MaxCalls
    /\ d' = [d EXCEPT ![r] = res.d]
    /\ w' = [w EXCEPT ![r] = res.w]
    /\ call' = [call EXCEPT ![r].base =
                   IF w[r].recording
                   THEN Append(@, [fn |-> fn, arg |-> arg, ret |-> res.ret])
                   ELSE @]
    /\ UNCHANGED << mw, requests, pending, pc, req, method, tally, outcome >>
    /\ UNCHANGED << mux, app >>

\* d.WriteHeader(code)
HandlerWriteHeader(r, code) ==
    HandlerCallsBase(r, "WriteHeader", << code >>,
                     WriteHeader([d |-> d[r], w |-> w[r]], code))

\* d.Write(b); the underlying writer returns n, err
HandlerWrite(r, b, n, err) ==
    HandlerCallsBase(r, "Write", << b >>,
                     Write([d |-> d[r], w |-> w[r]], b, n, err))

\* line 65: the wrapped handler finds d to implement the optional interface
\* cap and calls its method fn with the arguments arg; res is what the
\* method of the delegator does and returns.  The type assertion inside the
\* method panics on an underlying writer that does not implement cap.
HandlerCalls(r, cap, arg, res) ==
    /\ pc[r] = "handler"
    /\ Callable(req[r].inner)
    /\ w[r].calls < MaxCalls
    /\ call[r].n < MaxCalls
    /\ cap \in d[r].impl
    /\ IF cap \in w[r].caps
       THEN /\ d' = [d EXCEPT ![r] = res.d]
            /\ w' = [w EXCEPT ![r] = res.w]
            /\ call' = [call EXCEPT ![r] = [n |-> @.n + 1, fn |-> cap,
                                            arg |-> arg, ret |-> res.ret,
                                            base |-> @.base]]
            /\ UNCHANGED << pc, outcome >>
       ELSE /\ pc' = [pc EXCEPT ![r] = OnPanic]
            /\ outcome' = [outcome EXCEPT ![r] = "panicked"]
            /\ UNCHANGED << d, w, call >>
    /\ UNCHANGED << mw, requests, pending, req, method, tally >>
    /\ UNCHANGED << mux, app >>

\* d.ReadFrom(re); the underlying writer reports n bytes copied
HandlerReadFrom(r, re, n) ==
    HandlerCalls(r, ReaderFrom, << re >>, ReadFrom([d |-> d[r], w |-> w[r]], re, n))

\* d.CloseNotify(); the underlying writer returns the channel ch
HandlerCloseNotify(r, ch) ==
    HandlerCalls(r, CloseNotifier, << >>, CloseNotify([d |-> d[r], w |-> w[r]], ch))

\* d.Flush()
HandlerFlush(r) ==
    HandlerCalls(r, Flusher, << >>, Flush([d |-> d[r], w |-> w[r]]))

\* d.Hijack(); the underlying writer returns conn, rw, err
HandlerHijack(r, conn, rw, err) ==
    HandlerCalls(r, Hijacker, << >>, Hijack([d |-> d[r], w |-> w[r]], conn, rw, err))

\* d.Push(target, opts); the underlying writer returns err
HandlerPush(r, target, opts, err) ==
    HandlerCalls(r, Pusher, << target, opts >>,
                 Push([d |-> d[r], w |-> w[r]], target, opts, err))

\* line 65: the wrapped handler returns
HandlerReturn(r) ==
    /\ pc[r] = "handler"
    /\ Callable(req[r].inner)
    /\ pc' = [pc EXCEPT ![r] = "returned"]
    /\ outcome' = [outcome EXCEPT ![r] = "returned"]
    /\ UNCHANGED << mw, requests, pending, req, method, d, w, tally >>
    /\ UNCHANGED << mux, call, app >>

\* line 65: the wrapped handler does not return: it panics (its own
\* failure, or http.ErrAbortHandler when it gives up on a cancelled
\* request) or calls runtime.Goexit; either way the deferred calls run and
\* the rest of ServeHTTP does not
HandlerPanic(r) ==
    /\ pc[r] = "handler"
    /\ pc' = [pc EXCEPT ![r] = OnPanic]
    /\ outcome' = [outcome EXCEPT ![r] = "panicked"]
    /\ UNCHANGED << mw, requests, pending, req, method, d, w, tally >>
    /\ UNCHANGED << mux, call, app >>

\* lines 67-68
ServeHTTPAfter(r) ==
    /\ pc[r] = "returned"
    /\ LET res == requestsAfterFunc(mw, requests, req[r].handler, method[r],
                                    lookupCode(Status(d[r])))
       IN  /\ requests' = res.vec
           /\ pc' = [pc EXCEPT ![r] = IF res.ok THEN "returning" ELSE "unwinding"]
           /\ tally' = [tally EXCEPT ![r].requestsInc = @ + Raised(requests, res.vec),
                                      ![r].requestsDec = @ + Lowered(requests, res.vec)]
    /\ UNCHANGED << mw, pending, req, method, d, w, outcome >>
    /\ UNCHANGED << mux, call, app >>

\* the deferred call waiting until no other request is in its handler, as
\* it would for a lock held across line 65
ServeHTTPDefer_WaitsForOthers(r) ==
    /\ pc[r] \in {"returning", "unwinding"}
    /\ \A q \in Reqs \ {r} : pc[q] # "handler"
    /\ LET res == pendingDeferFunc(mw, pending, req[r].handler, method[r])
       IN  /\ pending' = res.vec
           /\ pc' = [pc EXCEPT ![r] = IF res.ok /\ pc[r] = "returning"
                                      THEN "done" ELSE "panicked"]
           /\ tally' = [tally EXCEPT ![r].pendingInc = @ + Raised(pending, res.vec),
                                      ![r].pendingDec = @ + Lowered(pending, res.vec)]
    /\ UNCHANGED << mw, requests, req, method, d, w, outcome >>
    /\ UNCHANGED << mux, call, app >>

\* the deferred call of line 62 runs, as ServeHTTP returns or unwinds
ServeHTTPDefer(r) ==
    /\ pc[r] \in {"returning", "unwinding"}
    /\ LET res == pendingDeferFunc(mw, pending, req[r].handler, method[r])
       IN  /\ pending' = res.vec
           /\ pc' = [pc EXCEPT ![r] = IF res.ok /\ pc[r] = "returning"
                                      THEN "done" ELSE "panicked"]
           /\ tally' = [tally EXCEPT ![r].pendingInc = @ + Raised(pending, res.vec),
                                      ![r].pendingDec = @ + Lowered(pending, res.vec)]
    /\ UNCHANGED << mw, requests, req, method, d, w, outcome >>
    /\ UNCHANGED << mux, call, app >>

(***************************************************************************)
(* Registration calls and the requests the ServeMux dispatches.            *)
(***************************************************************************)
\* the state of the ServeMux after a registration call with the given
\* arguments that ended as res says
Registered(entry, pattern, name, h, res) ==
    [m |-> res.m,
     asked |-> IF res.panic \/ pattern \in DOMAIN mux.asked THEN mux.asked
               ELSE MapSet(mux.asked, pattern, [name |-> name, handler |-> h]),
     named |-> IF res.panic THEN mux.named ELSE mux.named \cup {name},
     last |-> [entry |-> entry, name |-> name, handler |-> h,
               existed |-> pattern \in DOMAIN mux.m, panic |-> res.panic,
               ret |-> NoConfig]]

\* the state after a call of Middleware.Handler or Middleware.HandlerFunc
Made(entry, name, h, res) ==
    [mux EXCEPT !.named = IF res.panic THEN @ ELSE @ \cup {name},
                !.last = [entry |-> entry, name |-> name, handler |-> h,
                          existed |-> FALSE, panic |-> res.panic, ret |-> res.cfg]]

\* mw.Handler(name, h)
CallHandler(name, h) ==
    /\ mux' = Made("Handler", name, h, Handler(name, h))
    /\ UNCHANGED << mw, requests, pending, pc, req, method, d, w, outcome, tally >>
    /\ UNCHANGED << call, app >>

\* mw.HandlerFunc(name, f)
CallHandlerFunc(name, f) ==
    /\ mux' = Made("HandlerFunc", name, AsHandler(f), HandlerFunc(name, f))
    /\ UNCHANGED << mw, requests, pending, pc, req, method, d, w, outcome, tally >>
    /\ UNCHANGED << call, app >>

\* mux.Handle(pattern, h)
CallHandle(pattern, h) ==
    /\ mux' = Registered("Handle", pattern, pattern, h, Handle(mux.m, pattern, h))
    /\ UNCHANGED << mw, requests, pending, pc, req, method, d, w, outcome, tally >>
    /\ UNCHANGED << call, app >>

\* mux.HandleFunc(pattern, f)
CallHandleFunc(pattern, f) ==
    /\ mux' = Registered("HandleFunc", pattern, pattern, AsHandler(f),
                         HandleFunc(mux.m, pattern, f))
    /\ UNCHANGED << mw, requests, pending, pc, req, method, d, w, outcome, tally >>
    /\ UNCHANGED << call, app >>

\* mux.HandleFunc(pattern, f, WithName(name))
CallHandleFuncWithName(pattern, f, name) ==
    /\ mux' = Registered("HandleFuncWithName", pattern, name, AsHandler(f),
                         HandleFuncWithOptions(mux.m, pattern, f, << WithName(name) >>))
    /\ UNCHANGED << mw, requests, pending, pc, req, method, d, w, outcome, tally >>
    /\ UNCHANGED << call, app >>

\* ServeMux.ServeHTTP, lines 197-199: mux.mux dispatches the request to the
\* handlerConfig registered for the pattern that matches it
ServeMuxServeHTTP(r, pattern, m) ==
    /\ pattern \in DOMAIN mux.m
    /\ ServeHTTPBefore(r, mux.m[pattern], m)

\* the server calls the handler that the last call of Middleware.Handler or
\* Middleware.HandlerFunc returned
ServeMade(r, m) ==
    /\ mux.last.entry \in {"Handler", "HandlerFunc"}
    /\ ~mux.last.panic
    /\ ServeHTTPBefore(r, mux.last.ret, m)

(***************************************************************************)
(* Inputs.                                                                 *)
(***************************************************************************)
\* the option sets of TestServerMux
OptionSets ==
    { NoOptions, WithCode(NoOptions), WithMethod(NoOptions),
      WithConstLabels(NoOptions, FooBar), WithMethod(WithCode(NoOptions)) }

\* The requests served under Spec: the name of the handlerConfig and the
\* request's Method.  Two handlers; a method that methodTable lists and one
\* that it does not.
Requests ==
    { [handler |-> << "/" >>, Method |-> << "G", "E", "T" >>],
      [handler |-> << "/" >>, Method |-> << "P", "o", "s", "t" >>],
      [handler |-> << "/", "a" >>, Method |-> << "G", "E", "T" >>] }

\* status codes handlers set on a delegator: the default, another one that
\* codeTable lists and one that it does not
HandlerCodes == { 200, 404, 999 }

\* the status code handlers set under Spec
NotFound == { 404 }

\* net/http's HTTP/1 response: CloseNotifier, Flusher, Hijacker, ReaderFrom
ServerWriter == {CloseNotifier, Flusher, Hijacker, ReaderFrom}

InitState(options, n, caps) ==
    /\ mw = options
    /\ requests = initRequests(options)
    /\ pending = initPending(options)
    /\ pc = [r \in 1..n |-> "idle"]
    /\ req = [r \in 1..n |-> NoRequest]
    /\ method = [r \in 1..n |-> << >>]
    /\ d = [r \in 1..n |-> NoDelegator]
    /\ w = [r \in 1..n |-> NewWriter(caps, FALSE)]
    /\ outcome = [r \in 1..n |-> "running"]
    /\ tally = [r \in 1..n |-> NoTally]
    /\ mux = NoMux
    /\ call = [r \in 1..n |-> NoCall]

(***************************************************************************)
(* Spec: MaxReqs concurrent requests to the handlers of one middleware.    *)
(***************************************************************************)
Init == \E o \in OptionSets : InitState(o, MaxReqs, ServerWriter) /\ app = NoApp

Next ==
    \/ \E r \in Reqs, q \in Requests : ServeHTTPBefore(r, Serving(q.handler), q.Method)
    \/ \E r \in Reqs : ServeHTTPNewDelegator(r)
    \/ \E r \in Reqs, code \in NotFound : HandlerWriteHeader(r, code)
    \/ \E r \in Reqs : HandlerReturn(r)
    \/ \E r \in Reqs : HandlerPanic(r)
    \/ \E r \in Reqs : ServeHTTPAfter(r)
    \/ \E r \in Reqs : ServeHTTPDefer(r)

Spec == Init /\ [][Next]_vars

(***************************************************************************)
(* SpecLoad: MaxLoad concurrent GET requests to one handler, each of which *)
(* blocks in the handler and then returns (the scenario of TestServerMux). *)
(***************************************************************************)
InitLoad == \E o \in OptionSets : InitState(o, MaxLoad, ServerWriter) /\ app = NoApp

NextLoad ==
    \/ \E r \in Reqs : ServeHTTPBefore(r, Serving(<< "/" >>), << "G", "E", "T" >>)
    \/ \E r \in Reqs : ServeHTTPNewDelegator(r)
    \/ \E r \in Reqs : HandlerReturn(r)
    \/ \E r \in Reqs : ServeHTTPAfter(r)
    \/ \E r \in Reqs : ServeHTTPDefer(r)

SpecLoad == InitLoad /\ [][NextLoad]_vars

(***************************************************************************)
(* SpecLive: MaxLive concurrent requests whose handlers block for as long  *)
(* as they like and then return or panic, or never do.  The steps of       *)
(* ServeHTTP after the handler are a lookup and atomic updates of the      *)
(* vectors, which wait for nothing: a goroutine that can take one does, so *)
(* lines 67-68 and the deferred call are weakly fair.  Nothing is assumed  *)
(* of the wrapped handlers and of the arrival of requests.                 *)
(***************************************************************************)
InitLive ==
    \E o \in {NoOptions, WithMethod(WithCode(NoOptions))} :
        InitState(o, MaxLive, ServerWriter) /\ app = NoApp

NextLive ==
    \/ \E r \in Reqs : ServeHTTPBefore(r, Serving(<< "/" >>), << "G", "E", "T" >>)
    \/ \E r \in Reqs : ServeHTTPNewDelegator(r)
    \/ \E r \in Reqs : HandlerReturn(r)
    \/ \E r \in Reqs : HandlerPanic(r)
    \/ \E r \in Reqs : ServeHTTPAfter(r)
    \/ \E r \in Reqs : ServeHTTPDefer(r)

SpecLive ==
    /\ InitLive
    /\ [][NextLive]_vars
    /\ \A r \in 1..MaxLive :
           /\ WF_vars(ServeHTTPAfter(r))
           /\ WF_vars(ServeHTTPDefer(r))

(***************************************************************************)
(* SpecDelegator: the life of one delegator, made by NewDelegator for a    *)
(* recording writer with any of the 32 sets of optional interfaces.        *)
(***************************************************************************)
\* the arguments of Write and what the underlying writer's Write returns:
\* a count and no error, or nothing written and an error
Buffers == { "b1", "b2" }

WriteResults == { << n, "nil" >> : n \in 0..MaxBytes } \cup { << 0, "ErrClosed" >> }

\* the io.Reader arguments of ReadFrom
Readers == { "re1", "re2" }

\* what the underlying writer's Hijack returns: a connection and its
\* buffers, or http.ErrHijacked
HijackResults == { << "conn", "rw", "nil" >>, << "nil", "nil", "ErrHijacked" >> }

\* the arguments of Push and what the underlying writer's Push returns
PushTargets == { "/a", "/b" }

PushOptions == { "nil", "opts" }

PushErrors == { "nil", "ErrNotSupported" }

InitDelegator ==
    \E caps \in SUBSET Capabilities :
        /\ mw = NoOptions
        /\ requests = initRequests(NoOptions)
        /\ pending = initPending(NoOptions)
        /\ pc = [r \in {1} |-> "deferred"]
        /\ req = [r \in {1} |-> [Method |-> << "G", "E", "T" >>, handler |-> << "/" >>,
                                 inner |-> Serving(<< "/" >>).handler]]
        /\ method = [r \in {1} |-> lookupMethod(<< "G", "E", "T" >>)]
        /\ d = [r \in {1} |-> NoDelegator]
        /\ w = [r \in {1} |-> NewWriter(caps, TRUE)]
        /\ outcome = [r \in {1} |-> "running"]
        /\ tally = [r \in {1} |-> NoTally]
        /\ mux = NoMux
        /\ call = [r \in {1} |-> NoCall]
        /\ app = NoApp

NextDelegator ==
    \/ \E r \in Reqs : ServeHTTPNewDelegator(r)
    \/ \E r \in Reqs, code \in HandlerCodes : HandlerWriteHeader(r, code)
    \/ \E r \in Reqs, b \in Buffers, res \in WriteResults :
           HandlerWrite(r, b, res[1], res[2])
    \/ \E r \in Reqs, re \in Readers, n \in 0..MaxBytes : HandlerReadFrom(r, re, n)
    \/ \E r \in Reqs : HandlerCloseNotify(r, "ch")
    \/ \E r \in Reqs : HandlerFlush(r)
    \/ \E r \in Reqs, res \in HijackResults : HandlerHijack(r, res[1], res[2], res[3])
    \/ \E r \in Reqs, target \in PushTargets, opts \in PushOptions, err \in PushErrors :
           HandlerPush(r, target, opts, err)

SpecDelegator == InitDelegator /\ [][NextDelegator]_vars

(***************************************************************************)
(* SpecMux: registration calls on one ServeMux and its Middleware, a       *)
(* programme that recovers from their panics, and one request served by    *)
(* what was registered.                                                    *)
(***************************************************************************)
Patterns == { << "/" >>, << "/", "A" >> }

\* explicit names
Names == { << "T", "e", "s", "t" >> }

\* http.Handler arguments: nil and two handlers
Handlers == { NilHandler, HandlerValue("a"), HandlerValue("b") }

\* http.HandlerFunc arguments: nil and a function
Funcs == { NilFunc, "f" }

InitMux ==
    \E o \in {NoOptions, WithMethod(WithCode(NoOptions))} :
        InitState(o, 1, ServerWriter) /\ app = NoApp

NextMux ==
    \/ \E name \in Names, h \in Handlers : CallHandler(name, h)
    \/ \E name \in Names, f \in Funcs : CallHandlerFunc(name, f)
    \/ \E pattern \in Patterns, h \in Handlers : CallHandle(pattern, h)
    \/ \E pattern \in Patterns, f \in Funcs : CallHandleFunc(pattern, f)
    \/ \E pattern \in Patterns, f \in Funcs, name \in Names :
           CallHandleFuncWithName(pattern, f, name)
    \/ \E r \in Reqs, pattern \in Patterns :
           ServeMuxServeHTTP(r, pattern, << "G", "E", "T" >>)
    \/ \E r \in Reqs : ServeMade(r, << "G", "E", "T" >>)
    \/ \E r \in Reqs : ServeHTTPNewDelegator(r)
    \/ \E r \in Reqs : HandlerReturn(r)
    \/ \E r \in Reqs : HandlerPanic(r)
    \/ \E r \in Reqs : ServeHTTPAfter(r)
    \/ \E r \in Reqs : ServeHTTPDefer(r)

SpecMux == InitMux /\ [][NextMux]_vars

(***************************************************************************)
(* SpecLookup: one application of coalesce, lookupMethod or lookupCode to  *)
(* an argument drawn from the inputs below.                                *)
(***************************************************************************)
\* the label names of Middleware.init and the empty name maybe returns
LabelNames == { "", "handler", "method", "code" }

LabelLists == UNION { [1..n -> LabelNames] : n \in 0..MaxLabels }

\* the characters of the strings given to lookupMethod besides the method
\* constants: the letters of GET in both cases and a character without case
TokenChars == { "G", "g", "E", "e", "T", "t", "-" }

MethodStrings ==
    {methods[i] : i \in 1..Len(methods)}
    \cup {ToLower(methods[i]) : i \in 1..Len(methods)}
    \cup UNION { [1..n -> TokenChars] : n \in 0..MaxToken }

\* the status codes given to lookupCode: those of codes and others
StatusCodes ==
    {codes[i] : i \in 1..Len(codes)}
    \cup { -404, -1, 0, 7, 42, 99, 199, 299, 600, 999, 1000, 65535 }

Applying(fn, arg) ==
    /\ InitState(NoOptions, 1, ServerWriter)
    /\ app = [fn |-> fn, arg |-> arg, done |-> FALSE, ret |-> << >>]

InitLookup ==
    \/ \E labels \in LabelLists : Applying("coalesce", labels)
    \/ \E m \in MethodStrings : Applying("lookupMethod", m)
    \/ \E code \in StatusCodes : Applying("lookupCode", code)

Applied(ret) ==
    /\ ~app.done
    /\ app' = [app EXCEPT !.done = TRUE, !.ret = ret]
    /\ UNCHANGED << mw, requests, pending, pc, req, method, d, w, outcome, tally >>
    /\ UNCHANGED << mux, call >>

CallCoalesce == app.fn = "coalesce" /\ Applied(coalesce(app.arg))

CallLookupMethod == app.fn = "lookupMethod" /\ Applied(lookupMethod(app.arg))

CallLookupCode == app.fn = "lookupCode" /\ Applied(lookupCode(app.arg))

NextLookup ==
    \/ CallCoalesce
    \/ CallLookupMethod
    \/ CallLookupCode

SpecLookup == InitLookup /\ [][NextLookup]_vars

(***************************************************************************)
(* What the claims speak of.                                               *)
(***************************************************************************)
\* requests whose delegator exists
Wrapped == {r \in Reqs : pc[r] \notin {"idle", "deferred"}}

\* the label values request r is to be counted under in mw.pending:
\* handler name, and the lower-case method if the method label is enabled
PendingLabels(r) ==
    << req[r].handler >> \o (IF mw.method THEN << ToLower(req[r].Method) >> ELSE << >>)

\* the label values request r is to be counted under in mw.requests:
\* handler name, the lower-case method if the method label is enabled, the
\* decimal status recorded by its delegator if the code label is enabled
CompletedLabels(r) ==
    << req[r].handler >>
    \o (IF mw.method THEN << ToLower(req[r].Method) >> ELSE << >>)
    \o (IF mw.code THEN << Itoa(Status(d[r])) >> ELSE << >>)

\* the series a vector exposes: for every child its labels (the constant
\* labels and the variable label names with the child's values) and value
IndexOf(names, n) == CHOOSE i \in 1..Len(names) : names[i] = n

SeriesLabels(vec, lvs) ==
    [n \in DOMAIN vec.constLabels \cup {vec.names[i] : i \in 1..Len(vec.names)} |->
        IF n \in DOMAIN vec.constLabels THEN vec.constLabels[n]
        ELSE lvs[IndexOf(vec.names, n)]]

Exposed(vec) ==
    {[labels |-> SeriesLabels(vec, lvs), value |-> vec.vals[lvs]] : lvs \in DOMAIN vec.vals}

(***************************************************************************)
(* C1: for each of the 32 sets S of optional interfaces, NewDelegator of a *)
(* writer implementing exactly S returns a delegator implementing exactly  *)
(* S; the index it computes is in 0..31 and is an entry of pickDelegator.  *)
(***************************************************************************)
C1_DelegatorImplementsExactly ==
    \A r \in Wrapped :
        /\ d[r].impl = w[r].caps
        /\ d[r].id \in 0..31
        /\ d[r].id \in DOMAIN pickDelegator

C1_Witness ==
    \E r \in Wrapped :
        /\ w[r].caps = {Flusher, ReaderFrom, Pusher}
        /\ d[r].impl = {Flusher, ReaderFrom, Pusher}

(***************************************************************************)
(* C2: after one or more WriteHeader calls, Status() is the code of the    *)
(* first call.                                                             *)
(***************************************************************************)
C2_StatusIsFirstWriteHeader ==
    \A r \in Wrapped :
        Len(w[r].headers) >= 1 => Status(d[r]) = w[r].headers[1]

(***************************************************************************)
(* C9: Written() is the sum of the byte counts the underlying writer       *)
(* reported for all Write and ReadFrom calls.                              *)
(***************************************************************************)
C9_WrittenIsSumOfReported ==
    \A r \in Wrapped : Written(d[r]) = w[r].bytes + w[r].copied

C9_Witness ==
    \E r \in Wrapped :
        /\ w[r].bytes > 0
        /\ w[r].copied > 0
        /\ Written(d[r]) = w[r].bytes + w[r].copied

(***************************************************************************)
(* C10: a delegator on which WriteHeader was never called reports status   *)
(* 200, whatever was written through Write or ReadFrom.                    *)
(***************************************************************************)
C10_StatusDefaultsToOK ==
    \A r \in Wrapped : w[r].headers = << >> => Status(d[r]) = 200

C10_Witness ==
    \E r \in Wrapped :
        /\ w[r].headers = << >>
        /\ w[r].bytes > 0
        /\ w[r].copied > 0
        /\ Status(d[r]) = 200

(***************************************************************************)
(* C3: the pending gauge is decremented exactly once for every request,    *)
(* however the wrapped handler exits: not before ServeHTTP is left, and    *)
(* once when it has been left by return or by panic.                       *)
(***************************************************************************)
C3_PendingDecrementedOnce ==
    \A r \in Reqs :
        /\ pc[r] \in {"done", "panicked"} => tally[r].pendingDec = 1
        /\ pc[r] \notin {"done", "panicked"} => tally[r].pendingDec = 0

C3_Witness ==
    \E r1, r2 \in Reqs :
        /\ pc[r1] = "done"
        /\ outcome[r1] = "returned"
        /\ pc[r2] = "panicked"
        /\ outcome[r2] = "panicked"
        /\ tally[r1].pendingDec = 1
        /\ tally[r2].pendingDec = 1

(***************************************************************************)
(* C4: a request whose wrapped handler panicked has raised no child of the *)
(* completed counter; all it did to the vectors is one increment of the    *)
(* pending gauge and, once ServeHTTP is left, the one decrement.           *)
(***************************************************************************)
C4_NoCompletedOnPanic ==
    \A r \in Reqs :
        outcome[r] = "panicked" =>
            /\ tally[r].requestsInc = 0
            /\ tally[r].requestsDec = 0
            /\ tally[r].pendingInc = 1
            /\ tally[r].pendingDec = (IF pc[r] = "panicked" THEN 1 ELSE 0)
            /\ \A k \in DOMAIN requests.vals :
                   requests.vals[k] <=
                       Cardinality({q \in Reqs : /\ outcome[q] = "returned"
                                                 /\ CompletedLabels(q) = k})

C4_Witness ==
    \E r \in Reqs :
        /\ outcome[r] = "panicked"
        /\ pc[r] = "panicked"
        /\ Status(d[r]) = 404
        /\ tally[r].requestsInc = 0
        /\ requests.vals = EmptyMap

(***************************************************************************)
(* C5: the pending increment of a request comes before its wrapped handler *)
(* begins and its decrement after the handler has returned or panicked:    *)
(* while the handler runs the request is counted in the pending gauge.     *)
(***************************************************************************)
C5_PendingAroundHandler ==
    \A r \in Reqs :
        /\ pc[r] = "handler" =>
               /\ tally[r].pendingInc = 1
               /\ tally[r].pendingDec = 0
               /\ ValueOf(pending, PendingLabels(r)) >=
                      Cardinality({q \in Reqs : /\ pc[q] = "handler"
                                                /\ PendingLabels(q) = PendingLabels(r)})
        /\ pc[r] = "idle" => tally[r].pendingInc = 0
        /\ tally[r].pendingDec > 0 => pc[r] \in {"done", "panicked"}

C5_Witness ==
    \E r1, r2 \in Reqs :
        /\ r1 # r2
        /\ pc[r1] = "handler"
        /\ pc[r2] = "handler"
        /\ PendingLabels(r1) = PendingLabels(r2)
        /\ ValueOf(pending, PendingLabels(r1)) = 2

(***************************************************************************)
(* C6: a request whose wrapped handler returned raises the completed       *)
(* counter exactly once, by 1, after the return, in the child labelled by  *)
(* the handler name, the lower-case method (if enabled) and the decimal    *)
(* status its delegator recorded (if enabled).                            *)
(***************************************************************************)
C6_CompletedOncePerReturn ==
    /\ \A r \in Reqs :
           /\ outcome[r] = "returned" /\ pc[r] \in {"returning", "done"} =>
                  tally[r].requestsInc = 1 /\ tally[r].requestsDec = 0
           /\ outcome[r] = "returned" => pc[r] \in {"returned", "returning", "done"}
           /\ pc[r] \in {"idle", "deferred", "handler", "returned"} =>
                  tally[r].requestsInc = 0 /\ tally[r].requestsDec = 0
    /\ \A k \in DOMAIN requests.vals \cup {CompletedLabels(r) : r \in Wrapped} :
           ValueOf(requests, k) =
               Cardinality({r \in Reqs : /\ pc[r] \in {"returning", "done"}
                                         /\ CompletedLabels(r) = k})

C6_Witness ==
    \E r \in Reqs :
        /\ mw.method
        /\ mw.code
        /\ pc[r] = "done"
        /\ outcome[r] = "returned"
        /\ req[r].Method = << "P", "o", "s", "t" >>
        /\ Status(d[r]) = 404
        /\ requests.vals = (<< << "/" >>, << "p", "o", "s", "t" >>, << "4", "0", "4" >> >> :> 1)

(***************************************************************************)
(* C7: with M concurrent requests to one handler, the pending gauge reads  *)
(* M while all of them are in the handler; when all have returned and      *)
(* ServeHTTP is left, the pending gauge reads 0 and the completed counter  *)
(* reads M.                                                                *)
(***************************************************************************)
C7_ConcurrentRequestsCounted ==
    LET M == Cardinality(Reqs)
    IN  /\ (\A r \in Reqs : pc[r] = "handler") =>
               \A r \in Reqs : ValueOf(pending, PendingLabels(r)) = M
        /\ (\A r \in Reqs : pc[r] = "done") =>
               \A r \in Reqs : /\ ValueOf(pending, PendingLabels(r)) = 0
                               /\ ValueOf(requests, CompletedLabels(r)) = M

C7_Witness ==
    /\ Cardinality(Reqs) >= 4
    /\ \A r \in Reqs : pc[r] = "handler"
    /\ \A r \in Reqs : ValueOf(pending, PendingLabels(r)) = Cardinality(Reqs)

\* the end of the same run
C7_AllCompleted ==
    /\ \A r \in Reqs : pc[r] = "done"
    /\ \A r \in Reqs : /\ ValueOf(pending, PendingLabels(r)) = 0
                       /\ ValueOf(requests, CompletedLabels(r)) = Cardinality(Reqs)

(***************************************************************************)
(* C8: when c requests to the handler "/" have completed and p are in the  *)
(* wrapped handler, and no request is in between, the exposed pending      *)
(* gauge of the handler reads p and the exposed completed counter reads c, *)
(* under each option set of TestServerMux.                                 *)
(***************************************************************************)
Completed == {r \in Reqs : pc[r] = "done"}

InHandler == {r \in Reqs : pc[r] = "handler"}

\* the labels TestServerMux expects of the two series
ExpectedPendingSeries ==
    mw.constLabels
    @@ ("handler" :> << "/" >>)
    @@ (IF mw.method THEN "method" :> << "g", "e", "t" >> ELSE NoLabels)

ExpectedRequestsSeries ==
    mw.constLabels
    @@ ("handler" :> << "/" >>)
    @@ (IF mw.method THEN "method" :> << "g", "e", "t" >> ELSE NoLabels)
    @@ (IF mw.code THEN "code" :> << "2", "0", "0" >> ELSE NoLabels)

C8_ExposedAtObservation ==
    (\A r \in Reqs : pc[r] \in {"idle", "handler", "done"}) =>
        /\ Exposed(pending) =
               IF Completed \cup InHandler = {} THEN {}
               ELSE {[labels |-> ExpectedPendingSeries, value |-> Cardinality(InHandler)]}
        /\ Exposed(requests) =
               IF Completed = {} THEN {}
               ELSE {[labels |-> ExpectedRequestsSeries, value |-> Cardinality(Completed)]}

C8_Witness ==
    /\ mw.method
    /\ mw.code
    /\ Cardinality(Completed) = 3
    /\ Cardinality(InHandler) = 1
    /\ Exposed(pending) = {[labels |-> ExpectedPendingSeries, value |-> 1]}
    /\ Exposed(requests) = {[labels |-> ExpectedRequestsSeries, value |-> 3]}

(***************************************************************************)
(* C11: a registration call with a nil handler, through Middleware.Handler,*)
(* Middleware.HandlerFunc, ServeMux.Handle or ServeMux.HandleFunc, panics  *)
(* and installs nothing: no handlerConfig is returned, no pattern of the   *)
(* ServeMux has a nil handler, and no request is served by a nil handler.  *)
(***************************************************************************)
RegistrationEntries == {"Handler", "HandlerFunc", "Handle", "HandleFunc"}

C11_NilHandlerFailsFast ==
    /\ (mux.last.entry \in RegistrationEntries /\ mux.last.handler.value = "nil") =>
           mux.last.panic /\ mux.last.ret = NoConfig
    /\ \A pattern \in DOMAIN mux.m : mux.m[pattern].handler.value # "nil"
    /\ \A r \in Reqs : pc[r] # "idle" => req[r].inner.value # "nil"

(***************************************************************************)
(* C12: ServeMux.Handle and ServeMux.HandleFunc panic when the ServeMux    *)
(* already has a handler for the pattern, and the handler of the first     *)
(* registration stays registered and serves the requests for the pattern.  *)
(***************************************************************************)
C12_DuplicatePatternPanics ==
    /\ (mux.last.entry \in {"Handle", "HandleFunc"} /\ mux.last.existed) =>
           mux.last.panic
    /\ \A pattern \in DOMAIN mux.asked :
           /\ pattern \in DOMAIN mux.m
           /\ mux.m[pattern].handler = mux.asked[pattern].handler
    /\ \A r \in Reqs :
           (pc[r] # "idle" /\ req[r].handler \in DOMAIN mux.asked) =>
               req[r].inner = mux.asked[req[r].handler].handler

C12_Witness ==
    /\ mux.last.entry = "Handle"
    /\ mux.last.name = << "/" >>
    /\ mux.last.handler = HandlerValue("b")
    /\ mux.last.existed
    /\ mux.last.panic
    /\ mux.m[<< "/" >>].handler = HandlerValue("a")
    /\ \E r \in Reqs : /\ pc[r] = "done"
                       /\ req[r].handler = << "/" >>
                       /\ req[r].inner = HandlerValue("a")

HandlerValues == {q.handler : q \in Requests}

MethodValues == {ToLower(q.Method) : q \in Requests}

CodeValues == {Itoa(c) : c \in {StatusOK} \cup NotFound}

NamesOf(vec) == {vec.names[i] : i \in 1..Len(vec.names)}

C13_PendingNeverKeyedByCode ==
    /\ NamesOf(pending) = {"handler"} \cup (IF mw.method THEN {"method"} ELSE {})
    /\ "code" \notin NamesOf(pending)
    /\ \A k \in DOMAIN pending.vals :
           /\ Len(k) = (IF mw.method THEN 2 ELSE 1)
           /\ k[1] \in HandlerValues
           /\ mw.method => k[2] \in MethodValues
           /\ \A i \in 1..Len(k) : k[i] \notin CodeValues
    /\ (mw.method /\ mw.code) =>
           /\ NamesOf(requests) = {"code", "handler", "method"}
           /\ NamesOf(pending) = {"handler", "method"}

C13_Witness ==
    /\ mw.method
    /\ mw.code
    /\ \E r \in Reqs : pc[r] = "returning" /\ Status(d[r]) = 404
    /\ pending.vals = (<< << "/" >>, << "p", "o", "s", "t" >> >> :> 1)
    /\ requests.vals =
           (<< << "/" >>, << "p", "o", "s", "t" >>, << "4", "0", "4" >> >> :> 1)

(***************************************************************************)
(* C18: on the normal path the pending gauge is decremented before the     *)
(* completed counter is incremented: a request counted in the completed    *)
(* counter is no longer counted in the pending gauge.                      *)
(***************************************************************************)
C18_PendingDecrementedBeforeCompleted ==
    \A r \in Reqs : tally[r].requestsInc > 0 => tally[r].pendingDec > 0

(***************************************************************************)
(* C19: in each configuration the label values of every pending increment  *)
(* and decrement and of every completed increment are as many as the label *)
(* names declared for the vector (handler, then method if enabled, then    *)
(* code if enabled) and stand in the columns of their names: no request    *)
(* meets a label-arity mismatch, no method value stands in the code column *)
(* and no code value in the method column.                                 *)
(***************************************************************************)
\* the values a column named n may hold
ColumnValues(n) ==
    IF n = "handler" THEN HandlerValues
    ELSE IF n = "method" THEN MethodValues
    ELSE IF n = "code" THEN CodeValues
    ELSE {}

Aligned(vec) ==
    \A k \in DOMAIN vec.vals :
        /\ Len(k) = Len(vec.names)
        /\ \A i \in 1..Len(k) : k[i] \in ColumnValues(vec.names[i])

C19_LabelValuesAligned ==
    /\ requests.names =
           << "handler" >> \o (IF mw.method THEN << "method" >> ELSE << >>)
                           \o (IF mw.code THEN << "code" >> ELSE << >>)
    /\ pending.names =
           << "handler" >> \o (IF mw.method THEN << "method" >> ELSE << >>)
    /\ Aligned(requests)
    /\ Aligned(pending)
    /\ \A r \in Reqs :
           /\ pc[r] = "panicked" => outcome[r] = "panicked"
           /\ pc[r] \in {"deferred", "handler", "returned", "unwinding"} =>
                  tally[r].pendingInc = 1
           /\ pc[r] = "returning" =>
                  tally[r].pendingInc = 1 /\ tally[r].requestsInc = 1
           /\ pc[r] = "done" =>
                  /\ tally[r].pendingInc = 1
                  /\ tally[r].pendingDec = 1
                  /\ tally[r].requestsInc = 1

C19_Witness ==
    /\ mw.code
    /\ ~mw.method
    /\ \E r \in Reqs : pc[r] = "done" /\ req[r].Method = << "P", "o", "s", "t" >>
    /\ requests.vals = (<< << "/" >>, << "4", "0", "4" >> >> :> 1)
    /\ pending.vals = (<< << "/" >> >> :> 0)

(***************************************************************************)
(* C14: coalesce returns the non-empty entries of its argument in their    *)
(* order: the result has no empty entry and as many entries as the         *)
(* argument has non-empty ones, wherever the empty entries stand.          *)
(***************************************************************************)
NonEmpty(label) == label # ""

C14_CoalesceKeepsNonEmptyInOrder ==
    (app.fn = "coalesce" /\ app.done) =>
        /\ app.ret = SelectSeq(app.arg, NonEmpty)
        /\ \A i \in 1..Len(app.ret) : app.ret[i] # ""
        /\ Len(app.ret) = Cardinality({i \in 1..Len(app.arg) : app.arg[i] # ""})

C14_Witness ==
    /\ app.fn = "coalesce"
    /\ app.done
    /\ app.arg = << "", "handler", "", "", "code" >>
    /\ app.ret = << "handler", "code" >>

(***************************************************************************)
(* C15: lookupMethod(m) is m in lower case, character by character, for a  *)
(* method constant in upper case, in lower case, in mixed case and for a   *)
(* string that is no method constant.                                      *)
(***************************************************************************)
C15_LookupMethodIsLowerCase ==
    (app.fn = "lookupMethod" /\ app.done) =>
        /\ Len(app.ret) = Len(app.arg)
        /\ \A i \in 1..Len(app.arg) : app.ret[i] = ToLowerChar(app.arg[i])
        /\ \A i \in 1..Len(app.ret) :
               ~(\E j \in 1..Len(UpperLetters) : UpperLetters[j] = app.ret[i])

C15_Witness ==
    /\ app.fn = "lookupMethod"
    /\ app.done
    /\ app.arg = << "G", "e", "T" >>
    /\ app.arg \notin DOMAIN methodTable
    /\ app.ret = << "g", "e", "t" >>

(***************************************************************************)
(* C16: lookupCode(n) is the decimal string of n: a minus sign if n is     *)
(* negative, then digits without a leading zero whose value is n.          *)
(***************************************************************************)
DigitValue(c) == (CHOOSE i \in 1..Len(DecimalDigits) : DecimalDigits[i] = c) - 1

RECURSIVE DecimalValue(_)
DecimalValue(s) ==
    IF s = << >> THEN 0
    ELSE 10 * DecimalValue(SubSeq(s, 1, Len(s) - 1)) + DigitValue(s[Len(s)])

IsDecimal(s, n) ==
    /\ Len(s) >= 1
    /\ \A i \in 1..Len(s) : \E j \in 1..Len(DecimalDigits) : DecimalDigits[j] = s[i]
    /\ Len(s) > 1 => s[1] # "0"
    /\ DecimalValue(s) = n

C16_LookupCodeIsDecimal ==
    (app.fn = "lookupCode" /\ app.done) =>
        IF app.arg < 0
        THEN /\ Len(app.ret) >= 2
             /\ Head(app.ret) = "-"
             /\ IsDecimal(Tail(app.ret), -app.arg)
        ELSE IsDecimal(app.ret, app.arg)

C16_Witness ==
    /\ app.fn = "lookupCode"
    /\ app.done
    /\ app.arg = 999
    /\ app.arg \notin DOMAIN codeTable
    /\ app.ret = << "9", "9", "9" >>

(***************************************************************************)
(* C20: every call of CloseNotify, Flush, Hijack, Push or ReadFrom on the  *)
(* delegator is one call of the same method of the underlying writer, with *)
(* the same arguments, and returns what the underlying call returned;      *)
(* ReadFrom adds the byte count the underlying call reports to Written(),  *)
(* the other four leave Written() and the status as they were.             *)
(***************************************************************************)
\* the byte counts the underlying writer's ReadFrom reported, summed
RECURSIVE CopiedIn(_)
CopiedIn(log) ==
    IF log = << >> THEN 0
    ELSE (IF Head(log).fn = ReaderFrom THEN Head(log).ret[1] ELSE 0)
         + CopiedIn(Tail(log))

C21_BaseCallsPassedThrough ==
    \A r \in Wrapped :
        /\ Len(w[r].base) = Len(call[r].base)
        /\ \A i \in 1..Len(call[r].base) :
               /\ w[r].base[i].fn = call[r].base[i].fn
               /\ w[r].base[i].arg = call[r].base[i].arg
               /\ w[r].base[i].ret = call[r].base[i].ret

C21_Witness ==
    \E r \in Wrapped :
        /\ w[r].recording
        /\ call[r].base =
               << [fn |-> "WriteHeader", arg |-> << 404 >>, ret |-> << >>],
                  [fn |-> "Write", arg |-> << "b2" >>, ret |-> << 0, "ErrClosed" >>] >>
        /\ w[r].base = call[r].base
        /\ w[r].headers = << 404 >>

(***************************************************************************)
(* C22: no step lowers a child of the completed counter; a step that       *)
(* changes the counter raises one child by 1.                              *)
(***************************************************************************)
C22_CompletedNeverDecreases ==
    [][ /\ \A k \in DOMAIN requests.vals \cup DOMAIN requests'.vals :
               ValueOf(requests', k) >= ValueOf(requests, k)
        /\ requests' # requests =>
               /\ Lowered(requests, requests') = 0
               /\ Raised(requests, requests') = 1 ]_vars

C22_Witness ==
    /\ ~mw.method
    /\ ~mw.code
    /\ requests.vals = (<< << "/" >> >> :> 2)
    /\ \A r \in Reqs : pc[r] = "done"

(***************************************************************************)
(* C23: a step of a request served by the handlerConfig named A changes    *)
(* only children of the two vectors whose handler value is A and, with the *)
(* method label enabled, whose method value is the request's method in     *)
(* lower case; the children of every other handler keep their values.      *)
(***************************************************************************)
\* the requests that take a step
Stepping == {r \in Reqs : pc'[r] # pc[r]}

\* child k belongs to the handler and the method of request r
OwnedBy(k, r) ==
    /\ k[1] = req'[r].handler
    /\ mw.method => k[2] = ToLower(req'[r].Method)

C23_OnlyOwnEntriesChange ==
    [][ /\ \A k \in DOMAIN pending.vals \cup DOMAIN pending'.vals :
               ValueOf(pending', k) # ValueOf(pending, k) =>
                   \E r \in Stepping : OwnedBy(k, r)
        /\ \A k \in DOMAIN requests.vals \cup DOMAIN requests'.vals :
               ValueOf(requests', k) # ValueOf(requests, k) =>
                   \E r \in Stepping : OwnedBy(k, r)
        /\ Cardinality(Stepping) <= 1 ]_vars

C23_Witness ==
    /\ mw.method
    /\ ~mw.code
    /\ \E r1, r2 \in Reqs :
           /\ pc[r1] = "done"
           /\ req[r1].handler = << "/" >>
           /\ pc[r2] = "handler"
           /\ req[r2].handler = << "/", "a" >>
    /\ requests.vals = (<< << "/" >>, << "g", "e", "t" >> >> :> 1)
    /\ pending.vals = (<< << "/" >>, << "g", "e", "t" >> >> :> 0)
                      @@ (<< << "/", "a" >>, << "g", "e", "t" >> >> :> 1)

(***************************************************************************)
(* C24: a request whose wrapped handler has returned or panicked leaves    *)
(* ServeHTTP, the pending decrement made, whatever the other requests do:  *)
(* however many of them are in their handlers and never leave.             *)
(***************************************************************************)
C24_ServeHTTPFinishes ==
    \A r \in 1..MaxLive :
        (outcome[r] # "running") ~>
            (pc[r] \in {"done", "panicked"} /\ tally[r].pendingDec = 1)

C24_Witness ==
    \E r1, r2 \in Reqs :
        /\ pc[r1] = "done"
        /\ outcome[r1] = "returned"
        /\ pc[r2] = "panicked"
        /\ outcome[r2] = "panicked"
        /\ \E q \in Reqs : pc[q] = "handler" /\ outcome[q] = "running"

====
